---- MODULE Spec2Model ----
(***************************************************************************)
(* Model of src/TEO-Avistamientos-main/src/avistamientos.py: the query     *)
(* library over a list of Avistamiento tuples.                             *)
(*                                                                         *)
(* Representation of Python values:                                        *)
(*   str       a sequence of Unicode code points (so that ==, <, len and   *)
(*             the substring test `in` are computed, not assumed)          *)
(*   datetime  <<year, month, day, hour, minute>>                          *)
(*   date      <<year, month, day>>                                        *)
(*   Coordenadas  <<latitud, longitud>> in whole degrees                   *)
(*   distances and radii are in metres                                     *)
(* A Python object whose type matters is tagged: [tipo, valor].            *)
(***************************************************************************)
EXTENDS Integers, Sequences, FiniteSets, TLC

VARIABLES avistamientos, op, args, res

vars == <<avistamientos, op, args, res>>

(* ------------------------------ bounds --------------------------------- *)

MaxLen == 3

\* longest list of dates handed to dias_entre_fechas
MaxFechas == 3

\* longest file, in lines, handed to lee_avistamientos
MaxLineas == 3

(* ------------------------------ strings -------------------------------- *)

S_Reno == <<82,101,110,111>>
S_Lodi == <<76,111,100,105>>
S_NV == <<78,86>>
S_CA == <<67,65>>
S_AZ == <<65,90>>
S_TX == <<84,88>>
S_circle == <<99,105,114,99,108,101>>
S_light == <<108,105,103,104,116>>
S_disk == <<100,105,115,107>>
S_bright_light == <<98,114,105,103,104,116,32,108,105,103,104,116>>
S_steady == <<115,116,101,97,100,121>>
S_fecha_texto == <<48,49,47,48,49,47,50,48,50,48>>

(* ------------------------- Python value tags --------------------------- *)

PyNone == [tipo |-> "NoneType", valor |-> <<>>]
PyInt(n) == [tipo |-> "int", valor |-> n]
PyStr(s) == [tipo |-> "str", valor |-> s]
PyDate(d) == [tipo |-> "date", valor |-> d]
PyDatetime(d) == [tipo |-> "datetime", valor |-> d]
PySet(s) == [tipo |-> "set", valor |-> s]
PyList(l) == [tipo |-> "list", valor |-> l]
PyDict(claves, valores) == [tipo |-> "dict", valor |-> [claves |-> claves, valores |-> valores]]
PyAvistamiento(a) == [tipo |-> "Avistamiento", valor |-> a]

\* the two ways a call ends; stdout holds the lines the call printed
Return(v, out) == [tipo |-> "return", valor |-> v, stdout |-> out]
Raise(exc) == [tipo |-> "raise", valor |-> PyStr(<<>>), exc |-> exc, stdout |-> <<>>]

\* isinstance(x, date): datetime is a subclass of date
isinstance_date(x) == x.tipo \in {"date", "datetime"}

(* --------------------------- comparisons ------------------------------- *)

\* Python's < on tuples of numbers and on str: lexicographic
RECURSIVE SeqLt(_, _)
SeqLt(a, b) ==
    IF b = <<>> THEN FALSE
    ELSE IF a = <<>> THEN TRUE
    ELSE IF Head(a) < Head(b) THEN TRUE
    ELSE IF Head(a) > Head(b) THEN FALSE
    ELSE SeqLt(Tail(a), Tail(b))

SeqLe(a, b) == a = b \/ SeqLt(a, b)

\* datetime.date() and datetime.year
date(fechahora) == SubSeq(fechahora, 1, 3)
year(fechahora) == fechahora[1]

\* datetime.min.date() and datetime.max.date()
DateMin == <<1, 1, 1>>
DateMax == <<9999, 12, 31>>

(* ---------------------------- Avistamiento ----------------------------- *)

Avistamiento(fechahora, ciudad, estado, forma, duracion, comentarios, ubicacion) ==
    [fechahora |-> fechahora, ciudad |-> ciudad, estado |-> estado, forma |-> forma,
     duracion |-> duracion, comentarios |-> comentarios, ubicacion |-> ubicacion]

\* the NamedTuple as the tuple Python compares
AsTuple(a) ==
    <<a.fechahora, a.ciudad, a.estado, a.forma, <<a.duracion>>, a.comentarios, a.ubicacion>>

\* tuple.__lt__ on two Avistamiento: field by field, first difference decides
RECURSIVE TupleLt(_, _)
TupleLt(s, t) ==
    IF s = <<>> \/ t = <<>> THEN FALSE
    ELSE IF Head(s) = Head(t) THEN TupleLt(Tail(s), Tail(t))
    ELSE SeqLt(Head(s), Head(t))

AvLt(a, b) == TupleLt(AsTuple(a), AsTuple(b))

(* ----------------------------- input sets ------------------------------ *)

P_Reno == <<39, -119>>
P_Este == <<39, -118>>
P_Norte == <<40, -119>>

Ubicaciones == {P_Reno, P_Este, P_Norte}

R1 == Avistamiento(<<2020,1,1,10,0>>, S_Reno, S_NV, S_circle, 60, S_bright_light, P_Reno)
R2 == Avistamiento(<<2020,1,1,11,0>>, S_Reno, S_NV, S_circle, 120, S_steady, P_Reno)
R3 == Avistamiento(<<2021,6,15,9,30>>, S_Lodi, S_CA, S_light, 30, S_steady, P_Reno)
R4 == Avistamiento(<<2021,6,15,9,30>>, S_Lodi, S_CA, S_circle, 120, S_bright_light, P_Este)
R5 == Avistamiento(<<9999,12,31,23,59>>, S_Reno, S_AZ, S_circle, 60, S_bright_light, P_Norte)

Registros == {R1, R2, R3, R4, R5}

Datasets == UNION {[1..n -> Registros] : n \in 0..MaxLen}

Fechas == {<<2020,1,1>>, <<2021,6,15>>, <<9999,12,31>>, <<2019,5,5>>}

\* the default radio of avistamiento_cercano_mayor_duracion, 0.5 km
RadioDefecto == 500

Radios == {0, RadioDefecto, 86414, 86415}

Formas == {S_circle, S_light, S_disk}

Anyos == {2020, 2021, 1999}

Palabras == {S_light, S_steady, S_disk}

Estados == {S_NV, S_CA, S_AZ, S_TX}

\* the dates handed to dias_entre_fechas, a leap day among them
FechasDias == Fechas \cup {<<2020,2,29>>}

ListasFechas == UNION {[1..n -> FechasDias] : n \in 0..MaxFechas}

\* the default n of estados_mas_avistamientos2
NDefecto == 5

Enes == {0, 1, 2, NDefecto}

\* targets handed to the date-count query: dates, a datetime, None, a str
Objetivos ==
    {PyDate(f) : f \in Fechas} \cup {PyDatetime(<<2020,1,1,10,0>>), PyNone, PyStr(S_fecha_texto)}

\* bounds of the range query: a date or None
Limites == {PyDate(f) : f \in Fechas \ {<<2019,5,5>>}} \cup {PyNone}

(* ------------------------- lines of the csv file ----------------------- *)

\* 'Datetime,City,State,Shape,Duration,Comments,Latitude,Longitude'
L_cabecera ==
    <<68,97,116,101,116,105,109,101,44,67,105,116,121,44,83,116,97,116,101,
    44,83,104,97,112,101,44,68,117,114,97,116,105,111,110,44,67,111,109,109,
    101,110,116,115,44,76,97,116,105,116,117,100,101,44,76,111,110,103,105,
    116,117,100,101>>

\* '1/1/2020 10:00,Reno,NV,circle,60,bright light,39,-119'
L_R1 ==
    <<49,47,49,47,50,48,50,48,32,49,48,58,48,48,44,82,101,110,111,44,78,86,
    44,99,105,114,99,108,101,44,54,48,44,98,114,105,103,104,116,32,108,105,
    103,104,116,44,51,57,44,45,49,49,57>>

\* '06/15/2021 9:30,Lodi,CA,light,30,steady,39.0,-119'
L_R3 ==
    <<48,54,47,49,53,47,50,48,50,49,32,57,58,51,48,44,76,111,100,105,44,67,
    65,44,108,105,103,104,116,44,51,48,44,115,116,101,97,100,121,44,51,57,46,
    48,44,45,49,49,57>>

\* '1/1/2020 10:00,Reno,NV,circle,60,bright light,39'
L_siete_campos ==
    <<49,47,49,47,50,48,50,48,32,49,48,58,48,48,44,82,101,110,111,44,78,86,
    44,99,105,114,99,108,101,44,54,48,44,98,114,105,103,104,116,32,108,105,
    103,104,116,44,51,57>>

\* '13/1/2020 10:00,Reno,NV,circle,60,bright light,39,-119'
L_mes_13 ==
    <<49,51,47,49,47,50,48,50,48,32,49,48,58,48,48,44,82,101,110,111,44,78,
    86,44,99,105,114,99,108,101,44,54,48,44,98,114,105,103,104,116,32,108,
    105,103,104,116,44,51,57,44,45,49,49,57>>

\* '1/1/2020 10:00,Reno,NV,circle,60.5,bright light,39,-119'
L_duracion_decimal ==
    <<49,47,49,47,50,48,50,48,32,49,48,58,48,48,44,82,101,110,111,44,78,86,
    44,99,105,114,99,108,101,44,54,48,46,53,44,98,114,105,103,104,116,32,108,
    105,103,104,116,44,51,57,44,45,49,49,57>>

\* '1/1/2020 10:00,Reno,NV,circle,60,bright light,north,-119'
L_latitud_texto ==
    <<49,47,49,47,50,48,50,48,32,49,48,58,48,48,44,82,101,110,111,44,78,86,
    44,99,105,114,99,108,101,44,54,48,44,98,114,105,103,104,116,32,108,105,
    103,104,116,44,110,111,114,116,104,44,45,49,49,57>>

\* an empty line
L_vacia ==
    <<>>

Lineas ==
    {L_cabecera, L_R1, L_R3, L_siete_campos, L_mes_13, L_duracion_decimal,
     L_latitud_texto, L_vacia}

\* the files: the lines csv.reader meets, the first one being the header
Ficheros == UNION {[1..n -> Lineas] : n \in 0..MaxLineas}

(* --------------------------- coordenadas ------------------------------- *)

\* great-circle (haversine) distance on a sphere of radius 6371 km, in
\* metres, tabulated for the points of Ubicaciones
distancia_harvesine(a, b) ==
    IF a = b THEN 0
    ELSE IF {a, b} = {P_Reno, P_Este} THEN 86414
    ELSE IF {a, b} = {P_Reno, P_Norte} THEN 111195
    ELSE 140447

(* ------------------------- built-in functions -------------------------- *)

\* max(iterable, key=...) on a non-empty list of keys: the index of the
\* first element whose key is not exceeded by any other
RECURSIVE max_bucle(_, _, _)
max_bucle(claves, i, mejor) ==
    IF i > Len(claves) THEN mejor
    ELSE max_bucle(claves, i + 1, IF claves[i] > claves[mejor] THEN i ELSE mejor)

max_key(claves) == max_bucle(claves, 2, 1)

\* max(iterable) on a non-empty list of Avistamiento, natural tuple order
RECURSIVE max_av_bucle(_, _, _)
max_av_bucle(lista, i, mejor) ==
    IF i > Len(lista) THEN mejor
    ELSE max_av_bucle(lista, i + 1, IF AvLt(mejor, lista[i]) THEN lista[i] ELSE mejor)

max_av(lista) == max_av_bucle(lista, 2, lista[1])

\* list.sort(reverse=True): stable, descending by the natural tuple order
RECURSIVE insertar_desc(_, _)
insertar_desc(l, x) ==
    IF l = <<>> THEN <<x>>
    ELSE IF AvLt(Head(l), x) THEN <<x>> \o l
    ELSE <<Head(l)>> \o insertar_desc(Tail(l), x)

RECURSIVE sort_reverse_bucle(_, _, _)
sort_reverse_bucle(l, i, ordenada) ==
    IF i > Len(l) THEN ordenada
    ELSE sort_reverse_bucle(l, i + 1, insertar_desc(ordenada, l[i]))

sort_reverse(l) == sort_reverse_bucle(l, 1, <<>>)

\* the str test `palabra in s`: palabra is a contiguous substring of s
str_in(palabra, s) ==
    \E i \in 0..(Len(s) - Len(palabra)) : SubSeq(s, i + 1, i + Len(palabra)) = palabra

(* -------------------- 2.1 numero_avistamientos_fecha ------------------- *)

\* mutant: the timestamp is compared whole, .date() forgotten
RECURSIVE fecha_bucle_sin_date(_, _, _, _)
fecha_bucle_sin_date(avs, fecha, i, contador) ==
    IF i > Len(avs) THEN contador
    ELSE fecha_bucle_sin_date(avs, fecha, i + 1,
            IF fecha = PyNone \/ PyDatetime(avs[i].fechahora) = fecha
            THEN contador + 1 ELSE contador)

RECURSIVE fecha_bucle(_, _, _, _)
fecha_bucle(avs, fecha, i, contador) ==
    IF i > Len(avs) THEN contador
    ELSE fecha_bucle(avs, fecha, i + 1,
            IF fecha = PyNone \/ PyDate(date(avs[i].fechahora)) = fecha
            THEN contador + 1 ELSE contador)

numero_avistamientos_fecha(avs, fecha) ==
    IF isinstance_date(fecha)
    THEN Return(PyInt(fecha_bucle(avs, fecha, 1, 0)), <<>>)
    ELSE Return(PyInt(0), << <<>> >>)

numero_avistamientos_fecha2(avs, fecha) ==
    IF isinstance_date(fecha)
    THEN Return(PyInt(Cardinality({i \in 1..Len(avs) :
                    fecha = PyNone \/ PyDate(date(avs[i].fechahora)) = fecha})), <<>>)
    ELSE Return(PyInt(0), << <<>> >>)

(* ----------------- 2.4 avistamientos_cercanos_ubicacion ---------------- *)

\* mutant: the radius is inclusive
RECURSIVE cercanos_bucle_le(_, _, _, _, _)
cercanos_bucle_le(avs, ubicacion, radio, i, conjunto) ==
    IF i > Len(avs) THEN conjunto
    ELSE cercanos_bucle_le(avs, ubicacion, radio, i + 1,
            IF distancia_harvesine(avs[i].ubicacion, ubicacion) <= radio
            THEN conjunto \cup {avs[i]} ELSE conjunto)

RECURSIVE cercanos_bucle(_, _, _, _, _)
cercanos_bucle(avs, ubicacion, radio, i, conjunto) ==
    IF i > Len(avs) THEN conjunto
    ELSE cercanos_bucle(avs, ubicacion, radio, i + 1,
            IF distancia_harvesine(avs[i].ubicacion, ubicacion) < radio
            THEN conjunto \cup {avs[i]} ELSE conjunto)

avistamientos_cercanos_ubicacion(avs, ubicacion, radio) ==
    Return(PySet(cercanos_bucle(avs, ubicacion, radio, 1, {})), <<>>)

avistamientos_cercanos_ubicacion2(avs, ubicacion, radio) ==
    Return(PySet({avs[i] : i \in {j \in 1..Len(avs) :
                distancia_harvesine(avs[j].ubicacion, ubicacion) < radio}}), <<>>)

(* -------------------- 3.1 avistamiento_mayor_duracion ------------------ *)

RECURSIVE forma_bucle(_, _, _, _)
forma_bucle(avs, forma, i, lista) ==
    IF i > Len(avs) THEN lista
    ELSE forma_bucle(avs, forma, i + 1,
            IF avs[i].forma = forma THEN Append(lista, avs[i]) ELSE lista)

duraciones(lista) == [i \in 1..Len(lista) |-> lista[i].duracion]

\* mutant: max() without key=, the natural tuple order decides
avistamiento_mayor_duracion_sin_key(avs, forma) ==
    LET lista_av_forma == forma_bucle(avs, forma, 1, <<>>)
    IN  IF Len(lista_av_forma) > 0
        THEN Return(PyAvistamiento(max_av(lista_av_forma)), <<>>)
        ELSE Return(PyNone, <<>>)

avistamiento_mayor_duracion(avs, forma) ==
    LET lista_av_forma == forma_bucle(avs, forma, 1, <<>>)
    IN  IF Len(lista_av_forma) > 0
        THEN Return(PyAvistamiento(lista_av_forma[max_key(duraciones(lista_av_forma))]), <<>>)
        ELSE Return(PyNone, <<>>)

\* max() of an empty generator raises ValueError
avistamiento_mayor_duracion2(avs, forma) ==
    LET gen == SelectSeq(avs, LAMBDA a : a.forma = forma)
    IN  IF gen = <<>>
        THEN Raise("ValueError")
        ELSE Return(PyAvistamiento(gen[max_key(duraciones(gen))]), <<>>)

(* ---------------- 3.2 avistamiento_cercano_mayor_duracion -------------- *)

RECURSIVE av_cercanos_bucle(_, _, _, _, _)
av_cercanos_bucle(avs, coordenadas, radio, i, lista) ==
    IF i > Len(avs) THEN lista
    ELSE av_cercanos_bucle(avs, coordenadas, radio, i + 1,
            IF distancia_harvesine(avs[i].ubicacion, coordenadas) < radio
            THEN Append(lista, avs[i]) ELSE lista)

avistamiento_cercano_mayor_duracion(avs, coordenadas, radio) ==
    LET av_cercanos == av_cercanos_bucle(avs, coordenadas, radio, 1, <<>>)
    IN  IF Len(av_cercanos) > 0
        THEN Return(PyAvistamiento(max_av(av_cercanos)), <<>>)
        ELSE Return(PyNone, <<>>)

(* ------------------------ 3.3 avistamientos_fechas --------------------- *)

\* mutant: the list handed in is sorted in place and filtered afterwards
fechas_cuerpo_en_sitio(avs, fecha_inicial, fecha_final) ==
    LET fi == IF fecha_inicial = PyNone THEN DateMin ELSE fecha_inicial.valor
        ff == IF fecha_final = PyNone THEN DateMax ELSE fecha_final.valor
        ordenada == sort_reverse(avs)
    IN  [avistamientos |-> ordenada,
         lista |-> SelectSeq(ordenada, LAMBDA a :
                    SeqLe(fi, date(a.fechahora)) /\ SeqLt(date(a.fechahora), ff))]

\* the two list objects when the body ends: the list handed in, which the
\* comprehension only reads, and the new list `lista`, which sort() reorders
fechas_cuerpo(avs, fecha_inicial, fecha_final) ==
    LET fi == IF fecha_inicial = PyNone THEN DateMin ELSE fecha_inicial.valor
        ff == IF fecha_final = PyNone THEN DateMax ELSE fecha_final.valor
        lista == SelectSeq(avs, LAMBDA a :
                    SeqLe(fi, date(a.fechahora)) /\ SeqLt(date(a.fechahora), ff))
    IN  [avistamientos |-> avs, lista |-> sort_reverse(lista)]

avistamientos_fechas(avs, fecha_inicial, fecha_final) ==
    Return(PyList(fechas_cuerpo(avs, fecha_inicial, fecha_final).lista), <<>>)

(* ------------------------ 3.4 comentario_mas_largo --------------------- *)

RECURSIVE comentario_bucle(_, _, _, _, _)
comentario_bucle(avs, anyo, palabra, i, lista) ==
    IF i > Len(avs) THEN lista
    ELSE comentario_bucle(avs, anyo, palabra, i + 1,
            IF year(avs[i].fechahora) = anyo /\ str_in(palabra, avs[i].comentarios)
            THEN Append(lista, avs[i]) ELSE lista)

longitudes(lista) == [i \in 1..Len(lista) |-> Len(lista[i].comentarios)]

comentario_mas_largo(avs, anyo, palabra) ==
    LET lista == comentario_bucle(avs, anyo, palabra, 1, <<>>)
    IN  IF Len(lista) > 0
        THEN Return(PyAvistamiento(lista[max_key(longitudes(lista))]), <<>>)
        ELSE Return(PyNone, <<>>)

(* -------------------- 4.3 numero_avistamientos_por_año ----------------- *)

\* a dict: its keys in insertion order and the value of each key
DictVacio == [claves |-> <<>>, valores |-> <<>>]

EnDict(k, d) == \E i \in 1..Len(d.claves) : d.claves[i] = k

RECURSIVE anyo_bucle(_, _, _)
anyo_bucle(avs, i, d) ==
    IF i > Len(avs) THEN d
    ELSE LET anyo == year(avs[i].fechahora)
         IN  anyo_bucle(avs, i + 1,
                IF EnDict(anyo, d)
                THEN [d EXCEPT !.valores = [@ EXCEPT ![anyo] = @ + 1]]
                ELSE [claves |-> Append(d.claves, anyo),
                      valores |-> (anyo :> 0) @@ d.valores])

numero_avistamientos_por_anyo(avs) ==
    LET d == anyo_bucle(avs, 1, DictVacio)
    IN  Return(PyDict(d.claves, d.valores), <<>>)

\* Counter(iterable): every element counted, keys in order of first occurrence
RECURSIVE counter_bucle(_, _, _)
counter_bucle(elems, i, d) ==
    IF i > Len(elems) THEN d
    ELSE counter_bucle(elems, i + 1,
            IF EnDict(elems[i], d)
            THEN [d EXCEPT !.valores = [@ EXCEPT ![elems[i]] = @ + 1]]
            ELSE [claves |-> Append(d.claves, elems[i]),
                  valores |-> (elems[i] :> 1) @@ d.valores])

numero_avistamientos_por_anyo2(avs) ==
    LET d == counter_bucle([i \in 1..Len(avs) |-> year(avs[i].fechahora)], 1, DictVacio)
    IN  Return(PyDict(d.claves, d.valores), <<>>)

(* ---------------------- 2.3 duracion_total2 ---------------------------- *)

\* mutant: the filter on estado is dropped
RECURSIVE suma_bucle_sin_filtro(_, _, _, _)
suma_bucle_sin_filtro(avs, estado, i, suma) ==
    IF i > Len(avs) THEN suma
    ELSE suma_bucle_sin_filtro(avs, estado, i + 1, suma + avs[i].duracion)

\* sum(a.duracion for a in avistamientos if a.estado == estado), from 0
RECURSIVE suma_bucle(_, _, _, _)
suma_bucle(avs, estado, i, suma) ==
    IF i > Len(avs) THEN suma
    ELSE suma_bucle(avs, estado, i + 1,
            IF avs[i].estado = estado THEN suma + avs[i].duracion ELSE suma)

duracion_total2(avs, estado) ==
    Return(PyInt(suma_bucle(avs, estado, 1, 0)), <<>>)

(* ---------------------- 4.1 avistamientos_por_fecha -------------------- *)

\* the loop adds to the set of a date already in the dict and has no else
RECURSIVE por_fecha_bucle(_, _, _)
por_fecha_bucle(avs, i, d) ==
    IF i > Len(avs) THEN d
    ELSE LET f == date(avs[i].fechahora)
         IN  por_fecha_bucle(avs, i + 1,
                IF EnDict(f, d)
                THEN [d EXCEPT !.valores = [@ EXCEPT ![f] = @ \cup {avs[i]}]]
                ELSE d)

avistamientos_por_fecha(avs) ==
    LET d == por_fecha_bucle(avs, 1, DictVacio)
    IN  Return(PyDict(d.claves, d.valores), <<>>)

(* -------------------- 4.11 estados_mas_avistamientos2 ------------------ *)

\* mutant: among equal counts the later key goes first
RECURSIVE insertar_por_cuenta_le(_, _)
insertar_por_cuenta_le(l, x) ==
    IF l = <<>> THEN <<x>>
    ELSE IF Head(l)[2] <= x[2] THEN <<x>> \o l
    ELSE <<Head(l)>> \o insertar_por_cuenta_le(Tail(l), x)

\* Counter.most_common(n): the items (key, count) by decreasing count,
\* equal counts in insertion order, cut to the first n (n >= 0)
RECURSIVE insertar_por_cuenta(_, _)
insertar_por_cuenta(l, x) ==
    IF l = <<>> THEN <<x>>
    ELSE IF Head(l)[2] < x[2] THEN <<x>> \o l
    ELSE <<Head(l)>> \o insertar_por_cuenta(Tail(l), x)

RECURSIVE por_cuenta_bucle(_, _, _)
por_cuenta_bucle(items, i, ordenada) ==
    IF i > Len(items) THEN ordenada
    ELSE por_cuenta_bucle(items, i + 1, insertar_por_cuenta(ordenada, items[i]))

most_common(d, n) ==
    LET items == [i \in 1..Len(d.claves) |-> <<d.claves[i], d.valores[d.claves[i]]>>]
        ordenada == por_cuenta_bucle(items, 1, <<>>)
    IN  SubSeq(ordenada, 1, IF n < Len(ordenada) THEN n ELSE Len(ordenada))

estados_mas_avistamientos2(avs, n) ==
    LET numero_avistamientos_estado ==
            counter_bucle([i \in 1..Len(avs) |-> avs[i].estado], 1, DictVacio)
        estados == most_common(numero_avistamientos_estado, n)
    IN  Return(PyList(estados), <<>>)

(* ---------------------- 4.4 num_avistamientos_por_mes ------------------ *)

\* the LC_TIME locales the environment may hand to setlocale(LC_TIME, '')
Locales == {"C", "es_ES"}

\* the full month names of strftime("%B"): January.. in the C locale,
\* enero.. in es_ES
NombresMes(loc) ==
    IF loc = "C"
    THEN <<
        <<74,97,110,117,97,114,121>>,
        <<70,101,98,114,117,97,114,121>>,
        <<77,97,114,99,104>>,
        <<65,112,114,105,108>>,
        <<77,97,121>>,
        <<74,117,110,101>>,
        <<74,117,108,121>>,
        <<65,117,103,117,115,116>>,
        <<83,101,112,116,101,109,98,101,114>>,
        <<79,99,116,111,98,101,114>>,
        <<78,111,118,101,109,98,101,114>>,
        <<68,101,99,101,109,98,101,114>> >>
    ELSE <<
        <<101,110,101,114,111>>,
        <<102,101,98,114,101,114,111>>,
        <<109,97,114,122,111>>,
        <<97,98,114,105,108>>,
        <<109,97,121,111>>,
        <<106,117,110,105,111>>,
        <<106,117,108,105,111>>,
        <<97,103,111,115,116,111>>,
        <<115,101,112,116,105,101,109,98,114,101>>,
        <<111,99,116,117,98,114,101>>,
        <<110,111,118,105,101,109,98,114,101>>,
        <<100,105,99,105,101,109,98,114,101>> >>

strftime_B(fechahora, loc) == NombresMes(loc)[fechahora[2]]

\* str.capitalize(): the first character upper case, the others lower case
upper(c) == IF c \in 97..122 THEN c - 32 ELSE c
lower(c) == IF c \in 65..90 THEN c + 32 ELSE c
capitalize(s) ==
    [i \in 1..Len(s) |-> IF i = 1 THEN upper(s[i]) ELSE lower(s[i])]

RECURSIVE mes_bucle(_, _, _, _)
mes_bucle(avs, loc, i, d) ==
    IF i > Len(avs) THEN d
    ELSE LET clave == capitalize(strftime_B(avs[i].fechahora, loc))
         IN  mes_bucle(avs, loc, i + 1,
                IF EnDict(clave, d)
                THEN [d EXCEPT !.valores = [@ EXCEPT ![clave] = @ + 1]]
                ELSE [claves |-> Append(d.claves, clave),
                      valores |-> (clave :> 1) @@ d.valores])

num_avistamientos_por_mes(avs, loc) ==
    LET d == mes_bucle(avs, loc, 1, DictVacio)
    IN  Return(PyDict(d.claves, d.valores), <<>>)

(* ------------------------ 3.5 dias_entre_fechas ------------------------ *)

\* date.toordinal(): the day number in the proleptic Gregorian calendar
EsBisiesto(y) == (y % 4 = 0 /\ y % 100 # 0) \/ y % 400 = 0

DiasDelMes(y, m) ==
    IF m \in {1, 3, 5, 7, 8, 10, 12} THEN 31
    ELSE IF m \in {4, 6, 9, 11} THEN 30
    ELSE IF EsBisiesto(y) THEN 29 ELSE 28

RECURSIVE DiasAntesDelMes(_, _)
DiasAntesDelMes(y, m) ==
    IF m = 1 THEN 0 ELSE DiasAntesDelMes(y, m - 1) + DiasDelMes(y, m - 1)

toordinal(f) ==
    LET p == f[1] - 1
    IN  p * 365 + (p \div 4) - (p \div 100) + (p \div 400)
            + DiasAntesDelMes(f[1], f[2]) + f[3]

\* (f2 - f1).days
dias_entre(f1, f2) == toordinal(f2) - toordinal(f1)

\* dias is a dict ({}): the first pass of the loop computes the difference
\* and then fails at dias.append; with no pair to visit the dict is returned
RECURSIVE dias_bucle(_, _, _)
dias_bucle(fechas, i, dias) ==
    IF i + 1 > Len(fechas) THEN Return(PyDict(dias.claves, dias.valores), <<>>)
    ELSE LET dias_entre_f1_y_f2 == dias_entre(fechas[i], fechas[i + 1])
         IN  IF dias_entre_f1_y_f2 \in Int
             THEN Raise("AttributeError")
             ELSE dias_bucle(fechas, i + 1, dias)

dias_entre_fechas(fechas) == dias_bucle(fechas, 1, DictVacio)

(* -------------------------- 1.1 lee_avistamientos ---------------------- *)

\* str.split-like cut of s at every sep; csv.reader does this with sep ","
\* on a line without quotes
RECURSIVE cortar(_, _, _, _)
cortar(s, sep, actual, campos) ==
    IF s = <<>> THEN Append(campos, actual)
    ELSE IF Head(s) = sep
         THEN cortar(Tail(s), sep, <<>>, Append(campos, actual))
         ELSE cortar(Tail(s), sep, Append(actual, Head(s)), campos)

\* one row of csv.reader(f, delimiter=","): an empty line is the row []
csv_fila(linea) == IF linea = <<>> THEN <<>> ELSE cortar(linea, 44, <<>>, <<>>)

EsDigitos(s) == s # <<>> /\ \A i \in 1..Len(s) : s[i] \in 48..57

RECURSIVE valor_digitos(_)
valor_digitos(s) ==
    IF s = <<>> THEN 0
    ELSE valor_digitos(SubSeq(s, 1, Len(s) - 1)) * 10 + (s[Len(s)] - 48)

sin_signo(s) == IF s # <<>> /\ s[1] \in {43, 45} THEN Tail(s) ELSE s
signo(s) == IF s # <<>> /\ s[1] = 45 THEN -1 ELSE 1

\* int(s) for the literals [+-]digits: whether it parses, and its value
int_ok(s) == EsDigitos(sin_signo(s))
int_valor(s) == signo(s) * valor_digitos(sin_signo(s))

\* float(s) for the literals [+-]digits[.digits]; the value in whole
\* degrees, the unit of the model's Coordenadas
float_ok(s) ==
    LET partes == cortar(sin_signo(s), 46, <<>>, <<>>)
    IN  /\ Len(partes) \in {1, 2}
        /\ \A i \in 1..Len(partes) : EsDigitos(partes[i])
float_valor(s) == signo(s) * valor_digitos(cortar(sin_signo(s), 46, <<>>, <<>>)[1])

\* datetime.strptime(fecha, "%m/%d/%Y %H:%M"): the fields, when the text
\* is month/day/year hour:minute with 1-2, 1-2, 4, 1-2 and 1-2 digits
strptime_campos(fecha) ==
    LET dos == cortar(fecha, 32, <<>>, <<>>)
        dia == IF Len(dos) = 2 THEN cortar(dos[1], 47, <<>>, <<>>) ELSE <<>>
        hora == IF Len(dos) = 2 THEN cortar(dos[2], 58, <<>>, <<>>) ELSE <<>>
    IN  IF Len(dia) = 3 /\ Len(hora) = 2
        THEN <<dia[3], dia[1], dia[2], hora[1], hora[2]>>
        ELSE <<>>

strptime_ok(fecha) ==
    LET c == strptime_campos(fecha)
    IN  /\ c # <<>>
        /\ \A i \in 1..5 : EsDigitos(c[i])
        /\ Len(c[1]) = 4
        /\ \A i \in 2..5 : Len(c[i]) \in {1, 2}
        /\ valor_digitos(c[1]) >= 1
        /\ valor_digitos(c[2]) \in 1..12
        /\ valor_digitos(c[3]) \in 1..DiasDelMes(valor_digitos(c[1]), valor_digitos(c[2]))
        /\ valor_digitos(c[4]) \in 0..23
        /\ valor_digitos(c[5]) \in 0..59

parseFechahora(fecha) ==
    [i \in 1..5 |-> valor_digitos(strptime_campos(fecha)[i])]

\* mutant: a row that does not parse is skipped and the loop goes on
RECURSIVE lee_bucle_tolerante(_, _, _)
lee_bucle_tolerante(lineas, i, result) ==
    IF i > Len(lineas) THEN Return(PyList(result), <<>>)
    ELSE LET fila == csv_fila(lineas[i])
         IN  IF \/ Len(fila) # 8
                \/ ~strptime_ok(fila[1])
                \/ ~int_ok(fila[5])
                \/ ~float_ok(fila[7]) \/ ~float_ok(fila[8])
             THEN lee_bucle_tolerante(lineas, i + 1, result)
             ELSE lee_bucle_tolerante(lineas, i + 1,
                    Append(result,
                        Avistamiento(parseFechahora(fila[1]), fila[2], fila[3], fila[4],
                                     int_valor(fila[5]), fila[6],
                                     <<float_valor(fila[7]), float_valor(fila[8])>>)))

\* the for loop: unpacking a row into eight names, strptime, int and float
\* each raise ValueError, which ends the call; result is then lost
RECURSIVE lee_bucle(_, _, _)
lee_bucle(lineas, i, result) ==
    IF i > Len(lineas) THEN Return(PyList(result), <<>>)
    ELSE LET fila == csv_fila(lineas[i])
         IN  IF Len(fila) # 8 THEN Raise("ValueError")
             ELSE IF ~strptime_ok(fila[1]) THEN Raise("ValueError")
             ELSE IF ~int_ok(fila[5]) THEN Raise("ValueError")
             ELSE IF ~float_ok(fila[7]) \/ ~float_ok(fila[8]) THEN Raise("ValueError")
             ELSE lee_bucle(lineas, i + 1,
                    Append(result,
                        Avistamiento(parseFechahora(fila[1]), fila[2], fila[3], fila[4],
                                     int_valor(fila[5]), fila[6],
                                     <<float_valor(fila[7]), float_valor(fila[8])>>)))

\* next(reader) skips the first line; on a file without lines it raises
\* StopIteration
lee_avistamientos(fichero) ==
    IF fichero = <<>> THEN Raise("StopIteration")
    ELSE lee_bucle(fichero, 2, <<>>)

(* ------------------------------ the calls ------------------------------ *)

Call_numero_avistamientos_fecha ==
    \E fecha \in Objetivos :
        /\ op' = "numero_avistamientos_fecha"
        /\ args' = <<fecha>>
        /\ res' = numero_avistamientos_fecha(avistamientos, fecha)
        /\ UNCHANGED avistamientos

Call_numero_avistamientos_fecha2 ==
    \E fecha \in Objetivos :
        /\ op' = "numero_avistamientos_fecha2"
        /\ args' = <<fecha>>
        /\ res' = numero_avistamientos_fecha2(avistamientos, fecha)
        /\ UNCHANGED avistamientos

Call_avistamientos_cercanos_ubicacion ==
    \E ubicacion \in Ubicaciones, radio \in Radios :
        /\ op' = "avistamientos_cercanos_ubicacion"
        /\ args' = <<ubicacion, radio>>
        /\ res' = avistamientos_cercanos_ubicacion(avistamientos, ubicacion, radio)
        /\ UNCHANGED avistamientos

Call_avistamientos_cercanos_ubicacion2 ==
    \E ubicacion \in Ubicaciones, radio \in Radios :
        /\ op' = "avistamientos_cercanos_ubicacion2"
        /\ args' = <<ubicacion, radio>>
        /\ res' = avistamientos_cercanos_ubicacion2(avistamientos, ubicacion, radio)
        /\ UNCHANGED avistamientos

Call_avistamiento_mayor_duracion ==
    \E forma \in Formas :
        /\ op' = "avistamiento_mayor_duracion"
        /\ args' = <<forma>>
        /\ res' = avistamiento_mayor_duracion(avistamientos, forma)
        /\ UNCHANGED avistamientos

Call_avistamiento_mayor_duracion2 ==
    \E forma \in Formas :
        /\ op' = "avistamiento_mayor_duracion2"
        /\ args' = <<forma>>
        /\ res' = avistamiento_mayor_duracion2(avistamientos, forma)
        /\ UNCHANGED avistamientos

Call_avistamiento_cercano_mayor_duracion ==
    \E coordenadas \in Ubicaciones, radio \in Radios :
        /\ op' = "avistamiento_cercano_mayor_duracion"
        /\ args' = <<coordenadas, radio>>
        /\ res' = avistamiento_cercano_mayor_duracion(avistamientos, coordenadas, radio)
        /\ UNCHANGED avistamientos

Call_avistamientos_fechas ==
    \E fecha_inicial \in Limites, fecha_final \in Limites :
        /\ op' = "avistamientos_fechas"
        /\ args' = <<fecha_inicial, fecha_final>>
        /\ res' = avistamientos_fechas(avistamientos, fecha_inicial, fecha_final)
        /\ avistamientos' =
                fechas_cuerpo(avistamientos, fecha_inicial, fecha_final).avistamientos

Call_comentario_mas_largo ==
    \E anyo \in Anyos, palabra \in Palabras :
        /\ op' = "comentario_mas_largo"
        /\ args' = <<anyo, palabra>>
        /\ res' = comentario_mas_largo(avistamientos, anyo, palabra)
        /\ UNCHANGED avistamientos

Call_numero_avistamientos_por_anyo ==
    /\ op' = "numero_avistamientos_por_anyo"
    /\ args' = <<>>
    /\ res' = numero_avistamientos_por_anyo(avistamientos)
    /\ UNCHANGED avistamientos

Call_numero_avistamientos_por_anyo2 ==
    /\ op' = "numero_avistamientos_por_anyo2"
    /\ args' = <<>>
    /\ res' = numero_avistamientos_por_anyo2(avistamientos)
    /\ UNCHANGED avistamientos

Call_duracion_total2 ==
    \E estado \in Estados :
        /\ op' = "duracion_total2"
        /\ args' = <<estado>>
        /\ res' = duracion_total2(avistamientos, estado)
        /\ UNCHANGED avistamientos

Call_avistamientos_por_fecha ==
    /\ op' = "avistamientos_por_fecha"
    /\ args' = <<>>
    /\ res' = avistamientos_por_fecha(avistamientos)
    /\ UNCHANGED avistamientos

Call_estados_mas_avistamientos2 ==
    \E n \in Enes :
        /\ op' = "estados_mas_avistamientos2"
        /\ args' = <<n>>
        /\ res' = estados_mas_avistamientos2(avistamientos, n)
        /\ UNCHANGED avistamientos

\* the locale is the environment's, not an argument of the function
Call_num_avistamientos_por_mes ==
    \E loc \in Locales :
        /\ op' = "num_avistamientos_por_mes"
        /\ args' = <<loc>>
        /\ res' = num_avistamientos_por_mes(avistamientos, loc)
        /\ UNCHANGED avistamientos

Call_dias_entre_fechas ==
    \E fechas \in ListasFechas :
        /\ op' = "dias_entre_fechas"
        /\ args' = <<fechas>>
        /\ res' = dias_entre_fechas(fechas)
        /\ UNCHANGED avistamientos

\* the file is read once, before any query
Call_lee_avistamientos ==
    \E fichero \in Ficheros :
        /\ op = "init"
        /\ op' = "lee_avistamientos"
        /\ args' = <<fichero>>
        /\ res' = lee_avistamientos(fichero)
        /\ UNCHANGED avistamientos

Init ==
    /\ avistamientos \in Datasets
    /\ op = "init"
    /\ args = <<>>
    /\ res = Return(PyNone, <<>>)

Next ==
    \/ Call_numero_avistamientos_fecha
    \/ Call_numero_avistamientos_fecha2
    \/ Call_avistamientos_cercanos_ubicacion
    \/ Call_avistamientos_cercanos_ubicacion2
    \/ Call_avistamiento_mayor_duracion
    \/ Call_avistamiento_mayor_duracion2
    \/ Call_avistamiento_cercano_mayor_duracion
    \/ Call_avistamientos_fechas
    \/ Call_comentario_mas_largo
    \/ Call_numero_avistamientos_por_anyo
    \/ Call_numero_avistamientos_por_anyo2
    \/ Call_duracion_total2
    \/ Call_avistamientos_por_fecha
    \/ Call_estados_mas_avistamientos2
    \/ Call_num_avistamientos_por_mes

Spec == Init /\ [][Next]_vars

\* the load alone: no dataset yet, any file
InitLee ==
    /\ avistamientos = <<>>
    /\ op = "init"
    /\ args = <<>>
    /\ res = Return(PyNone, <<>>)

NextLee == Call_lee_avistamientos

SpecLee == InitLee /\ [][NextLee]_vars

\* the helper dias_entre_fechas alone: it takes a list of dates, no dataset
InitDias ==
    /\ avistamientos = <<>>
    /\ op = "init"
    /\ args = <<>>
    /\ res = Return(PyNone, <<>>)

NextDias == Call_dias_entre_fechas

SpecDias == InitDias /\ [][NextDias]_vars

(* ------------------------------ claims --------------------------------- *)

\* number of positions of the list l that hold the record r
Cuenta(r, l) == Cardinality({i \in 1..Len(l) : l[i] = r})

\* the years, and the positions of a year, in the dataset
AnyosDe(avs) == {year(avs[i].fechahora) : i \in 1..Len(avs)}
EnAnyo(avs, y) == {i \in 1..Len(avs) : year(avs[i].fechahora) = y}
EnFecha(avs, f) == {i \in 1..Len(avs) : date(avs[i].fechahora) = f}

\* C1: numero_avistamientos_por_año returns a mapping whose keys are exactly
\* the years of the dataset, each with the number of sightings of that year.
C1_PorAnyoCuenta ==
    op = "numero_avistamientos_por_anyo" =>
        /\ res.tipo = "return"
        /\ res.valor.tipo = "dict"
        /\ {res.valor.valor.claves[i] : i \in 1..Len(res.valor.valor.claves)}
                = AnyosDe(avistamientos)
        /\ \A y \in AnyosDe(avistamientos) :
                res.valor.valor.valores[y] = Cardinality(EnAnyo(avistamientos, y))

\* C2: for dates fecha_inicial <= fecha_final, avistamientos_fechas returns
\* exactly the sightings dated d with fecha_inicial <= d <= fecha_final.
C2_FechasInclusive ==
    (/\ op = "avistamientos_fechas"
     /\ args[1].tipo = "date" /\ args[2].tipo = "date"
     /\ SeqLe(args[1].valor, args[2].valor)) =>
        /\ res.tipo = "return"
        /\ res.valor.tipo = "list"
        /\ \A r \in Registros :
                Cuenta(r, res.valor.valor) =
                    IF SeqLe(args[1].valor, date(r.fechahora))
                       /\ SeqLe(date(r.fechahora), args[2].valor)
                    THEN Cuenta(r, avistamientos) ELSE 0

\* C3: avistamientos_fechas with both bounds None returns every record of
\* the dataset, timestamps non-increasing from first to last.
C3_FechasSinLimites ==
    (/\ op = "avistamientos_fechas"
     /\ args[1] = PyNone /\ args[2] = PyNone) =>
        /\ res.tipo = "return"
        /\ res.valor.tipo = "list"
        /\ \A r \in Registros : Cuenta(r, res.valor.valor) = Cuenta(r, avistamientos)
        /\ \A i, j \in 1..Len(res.valor.valor) :
                i < j => ~SeqLt(res.valor.valor[i].fechahora, res.valor.valor[j].fechahora)

\* C4: for a date fecha, numero_avistamientos_fecha (and its comprehension
\* twin) returns the number of sightings whose date component is fecha,
\* whatever their time of day.
C4_CuentaFecha ==
    (/\ op \in {"numero_avistamientos_fecha", "numero_avistamientos_fecha2"}
     /\ args[1].tipo = "date") =>
        /\ res.tipo = "return"
        /\ res.valor = PyInt(Cardinality(EnFecha(avistamientos, args[1].valor)))

\* two sightings of the same day at different hours were both counted
C4_Witness ==
    /\ op = "numero_avistamientos_fecha"
    /\ args = <<PyDate(<<2020,1,1>>)>>
    /\ \E i, j \in 1..Len(avistamientos) :
            /\ avistamientos[i] = R1
            /\ avistamientos[j] = R2
    /\ res.valor = PyInt(2)

\* C5: numero_avistamientos_fecha with fecha = None returns the length of
\* the dataset.
C5_CuentaNone ==
    (/\ op = "numero_avistamientos_fecha"
     /\ args[1] = PyNone) =>
        /\ res.tipo = "return"
        /\ res.valor = PyInt(Len(avistamientos))

\* C6: numero_avistamientos_fecha with a target that is not a date ends in
\* an error; it returns no count.
C6_RechazaNoFecha ==
    (/\ op = "numero_avistamientos_fecha"
     /\ ~isinstance_date(args[1])) =>
        res.tipo = "raise"

\* the positions of the dataset within the radius of a point
Cerca(avs, punto, radio) ==
    {i \in 1..Len(avs) : distancia_harvesine(avs[i].ubicacion, punto) < radio}
ConForma(avs, forma) == {i \in 1..Len(avs) : avs[i].forma = forma}

\* C7: the radius queries return the set of the records of the dataset at
\* distance < radio of the point, strictly: nothing at distance radio,
\* nothing from outside the dataset, equal records once.
C7_CercanosEstricto ==
    op \in {"avistamientos_cercanos_ubicacion", "avistamientos_cercanos_ubicacion2"} =>
        /\ res.tipo = "return"
        /\ res.valor.tipo = "set"
        /\ \A r \in Registros :
                r \in res.valor.valor <=>
                    /\ Cuenta(r, avistamientos) > 0
                    /\ distancia_harvesine(r.ubicacion, args[1]) < args[2]
        /\ res.valor.valor \subseteq Registros

\* a duplicated record inside the radius and a record at distance radio
C7_Witness ==
    /\ op = "avistamientos_cercanos_ubicacion"
    /\ args = <<P_Reno, 86414>>
    /\ Cuenta(R1, avistamientos) = 2
    /\ Cuenta(R4, avistamientos) = 1
    /\ distancia_harvesine(R4.ubicacion, P_Reno) = 86414
    /\ res.valor = PySet({R1})

\* C8: when some sighting has the shape, avistamiento_mayor_duracion
\* returns a sighting of the dataset of that shape whose duration no other
\* sighting of the shape exceeds.
C8_MayorDuracion ==
    (/\ op = "avistamiento_mayor_duracion"
     /\ ConForma(avistamientos, args[1]) # {}) =>
        /\ res.tipo = "return"
        /\ res.valor.tipo = "Avistamiento"
        /\ Cuenta(res.valor.valor, avistamientos) > 0
        /\ res.valor.valor.forma = args[1]
        /\ \A i \in ConForma(avistamientos, args[1]) :
                avistamientos[i].duracion <= res.valor.valor.duracion

\* two circle sightings of 60 and 120 seconds, and a later one of 60
C8_Witness ==
    /\ op = "avistamiento_mayor_duracion"
    /\ args = <<S_circle>>
    /\ avistamientos = <<R1, R2, R5>>
    /\ res.valor = PyAvistamiento(R2)

\* no record of the dataset passes the filter of the extremum query called
NingunoPasa ==
    CASE op \in {"avistamiento_mayor_duracion", "avistamiento_mayor_duracion2"} ->
            ConForma(avistamientos, args[1]) = {}
      [] op = "avistamiento_cercano_mayor_duracion" ->
            Cerca(avistamientos, args[1], args[2]) = {}
      [] op = "comentario_mas_largo" ->
            \A i \in 1..Len(avistamientos) :
                ~(/\ year(avistamientos[i].fechahora) = args[1]
                  /\ str_in(args[2], avistamientos[i].comentarios))
      [] OTHER -> FALSE

\* C9: every implemented extremum query returns None, and raises nothing,
\* when no record passes its filter.
C9_AusenciaNone ==
    (/\ op \in {"avistamiento_mayor_duracion", "avistamiento_mayor_duracion2",
                "avistamiento_cercano_mayor_duracion", "comentario_mas_largo"}
     /\ NingunoPasa) =>
        /\ res.tipo = "return"
        /\ res.valor = PyNone

\* C10: when some sighting lies within the radius,
\* avistamiento_cercano_mayor_duracion returns the pair (duracion,
\* comentarios) of a sighting within the radius of maximum duration.
C10_CercanoMayorDuracion ==
    (/\ op = "avistamiento_cercano_mayor_duracion"
     /\ Cerca(avistamientos, args[1], args[2]) # {}) =>
        /\ res.tipo = "return"
        /\ res.valor.tipo = "tuple"
        /\ \E i \in Cerca(avistamientos, args[1], args[2]) :
                /\ res.valor.valor = <<avistamientos[i].duracion, avistamientos[i].comentarios>>
                /\ \A j \in Cerca(avistamientos, args[1], args[2]) :
                        avistamientos[j].duracion <= avistamientos[i].duracion

\* the dates, the states and the first position of a state in the dataset
FechasDe(avs) == {date(avs[i].fechahora) : i \in 1..Len(avs)}
EstadosDe(avs) == {avs[i].estado : i \in 1..Len(avs)}
EnEstado(avs, e) == {i \in 1..Len(avs) : avs[i].estado = e}
Primera(avs, e) == CHOOSE i \in EnEstado(avs, e) : \A j \in EnEstado(avs, e) : i <= j

\* C11: avistamientos_por_fecha returns a mapping whose keys are exactly
\* the dates of the dataset, each with the set of all sightings of that date.
C11_PorFecha ==
    op = "avistamientos_por_fecha" =>
        /\ res.tipo = "return"
        /\ res.valor.tipo = "dict"
        /\ {res.valor.valor.claves[i] : i \in 1..Len(res.valor.valor.claves)}
                = FechasDe(avistamientos)
        /\ \A f \in FechasDe(avistamientos) :
                res.valor.valor.valores[f] =
                    {avistamientos[i] : i \in EnFecha(avistamientos, f)}

\* C12: for n >= 0 estados_mas_avistamientos2 returns min(n, number of
\* distinct states) pairs (state, count), never padded: each count is the
\* number of sightings of the state, counts do not increase along the list,
\* no state left out has a count above the last listed one, and states of
\* equal count come in the order of their first occurrence in the dataset.
C12_EstadosMasAvistamientos ==
    op = "estados_mas_avistamientos2" =>
        /\ res.tipo = "return"
        /\ res.valor.tipo = "list"
        /\ LET l == res.valor.valor
               k == Cardinality(EstadosDe(avistamientos))
           IN  /\ Len(l) = IF args[1] < k THEN args[1] ELSE k
               /\ \A i \in 1..Len(l) :
                    /\ l[i][1] \in EstadosDe(avistamientos)
                    /\ l[i][2] = Cardinality(EnEstado(avistamientos, l[i][1]))
               /\ \A i, j \in 1..Len(l) :
                    i < j =>
                        /\ l[i][1] # l[j][1]
                        /\ l[i][2] >= l[j][2]
                        /\ l[i][2] = l[j][2] =>
                              Primera(avistamientos, l[i][1]) < Primera(avistamientos, l[j][1])
               /\ Len(l) > 0 =>
                    \A e \in EstadosDe(avistamientos) :
                        (\A i \in 1..Len(l) : l[i][1] # e) =>
                            Cardinality(EnEstado(avistamientos, e)) <= l[Len(l)][2]

\* three states of one sighting each, n = 2: the first two met are listed
C12_Witness ==
    /\ op = "estados_mas_avistamientos2"
    /\ args = <<2>>
    /\ avistamientos = <<R3, R1, R5>>
    /\ res.valor = PyList(<< <<S_CA, 1>>, <<S_NV, 1>> >>)

\* the positions of the dataset whose sighting falls in month m
EnMes(avs, m) == {i \in 1..Len(avs) : avs[i].fechahora[2] = m}

\* C13: num_avistamientos_por_mes returns a mapping with one key for each
\* of the twelve months: the number of sightings of the month, 0 for a
\* month without sightings.
C13_DoceMeses ==
    op = "num_avistamientos_por_mes" =>
        /\ res.tipo = "return"
        /\ res.valor.tipo = "dict"
        /\ {res.valor.valor.claves[i] : i \in 1..Len(res.valor.valor.claves)}
                = {capitalize(NombresMes(args[1])[m]) : m \in 1..12}
        /\ \A m \in 1..12 :
                res.valor.valor.valores[capitalize(NombresMes(args[1])[m])]
                    = Cardinality(EnMes(avistamientos, m))

\* the sum of the durations at a set of positions of the dataset
RECURSIVE SumaDuracion(_, _)
SumaDuracion(avs, posiciones) ==
    IF posiciones = {} THEN 0
    ELSE LET i == CHOOSE i \in posiciones : TRUE
         IN  avs[i].duracion + SumaDuracion(avs, posiciones \ {i})

\* C14: duracion_total2 returns the sum of duracion over exactly the
\* sightings of the given state, and the integer 0 when there is none.
C14_DuracionTotal ==
    op = "duracion_total2" =>
        /\ res.tipo = "return"
        /\ res.valor.tipo = "int"
        /\ res.valor.valor = SumaDuracion(avistamientos, EnEstado(avistamientos, args[1]))
        /\ EnEstado(avistamientos, args[1]) = {} => res.valor = PyInt(0)

\* the two Reno sightings of 60 and 120 seconds and one of another state
C14_Witness ==
    /\ op = "duracion_total2"
    /\ args = <<S_NV>>
    /\ avistamientos = <<R1, R3, R2>>
    /\ res.valor = PyInt(180)

\* C16: no call of a query function changes the dataset it is given:
\* same length, same records, same order; avistamientos_fechas sorts the
\* list it returns, not the list it received.
C16_DatasetIntacto == [][avistamientos' = avistamientos]_vars

\* avistamientos_fechas has answered in descending order for a dataset
\* that is in ascending order, and the dataset still is
C16_Witness ==
    /\ op = "avistamientos_fechas"
    /\ args = <<PyNone, PyNone>>
    /\ avistamientos = <<R1, R2, R3>>
    /\ res.valor = PyList(<<R3, R2, R1>>)

\* C17: for a list of k dates dias_entre_fechas ends normally and returns
\* the list of the max(k-1, 0) day differences of consecutive dates, the
\* empty list for k < 2.
C17_DiasEntreFechas ==
    op = "dias_entre_fechas" =>
        /\ res.tipo = "return"
        /\ res.valor.tipo = "list"
        /\ Len(res.valor.valor) = (IF Len(args[1]) >= 1 THEN Len(args[1]) - 1 ELSE 0)
        /\ \A i \in 1..Len(res.valor.valor) :
                res.valor.valor[i] = toordinal(args[1][i + 1]) - toordinal(args[1][i])

\* the lines of Lineas that are well-formed rows, and the record each is
BienFormadas == {L_R1, L_R3}
RegistroDe(linea) == IF linea = L_R1 THEN R1 ELSE R3

\* the data rows of a file: every line after the first
FilasDe(fichero) == {i \in 2..Len(fichero) : TRUE}

\* outcome (a): every data row is well-formed and the caller receives one
\* record per data row, in file order, the first line skipped
ResultadoCompleto(fichero) ==
    /\ \A i \in FilasDe(fichero) : fichero[i] \in BienFormadas
    /\ res.tipo = "return"
    /\ res.valor.tipo = "list"
    /\ Len(res.valor.valor) = Cardinality(FilasDe(fichero))
    /\ \A i \in FilasDe(fichero) : res.valor.valor[i - 1] = RegistroDe(fichero[i])

\* outcome (b): some data row is malformed and the call fails, no dataset
ResultadoFallo(fichero) ==
    /\ \E i \in FilasDe(fichero) : fichero[i] \notin BienFormadas
    /\ res.tipo = "raise"

\* C15 as stated: the outcome of lee_avistamientos is (a) or (b).
C15_DosResultados ==
    op = "lee_avistamientos" =>
        ResultadoCompleto(args[1]) \/ ResultadoFallo(args[1])

\* C15 amended: for a file that has its header line the outcome is (a) or
\* (b); a file without any line ends in a failure (StopIteration) and no
\* dataset.
C15_DosResultadosConCabecera ==
    op = "lee_avistamientos" =>
        IF Len(args[1]) >= 1
        THEN ResultadoCompleto(args[1]) \/ ResultadoFallo(args[1])
        ELSE res = Raise("StopIteration")

\* a good row was parsed before a malformed one and nothing was returned
C15_Witness ==
    /\ op = "lee_avistamientos"
    /\ args = << <<L_cabecera, L_R1, L_mes_13>> >>
    /\ res = Raise("ValueError")

====
